---- MODULE Spec2Model ----
(***************************************************************************)
(* Export-reconciliation pipeline of the Squidle image/annotation scripts: *)
(* src/image_collection_with_ann.py and src/single_image_with_ann.py.      *)
(*                                                                         *)
(* Column names are modelled as sequences of one-character strings so that *)
(* str.lower(), str.endswith() and the `in` substring test are computed    *)
(* as Python computes them.  Table cells are tagged values so that the     *)
(* numeric coercions (pd.to_numeric, astype("Int64"), int(), read_csv)     *)
(* are conversions, not the identity.                                      *)
(***************************************************************************)
EXTENDS Integers, Sequences, FiniteSets, TLC

(***************************************************************************)
(* Bounds of the model                                                     *)
(***************************************************************************)
MaxCols == 3
MaxCalls == 2
MaxRows == 2
MaxId == 2
MaxIds == 2
MaxRecs == 2
MaxMedia == 3
MaxWorkers == 2
MaxMainMedia == 3
MaxMainAnns == 4

(***************************************************************************)
(* Strings as character sequences                                          *)
(***************************************************************************)
LowerChar(c) ==
  CASE c = "P" -> "p"
    [] c = "M" -> "m"
    [] c = "I" -> "i"
    [] c = "D" -> "d"
    [] OTHER -> c

\* str.lower()
Lower(s) == [k \in 1..Len(s) |-> LowerChar(s[k])]

\* str.endswith(suf)
EndsWith(s, suf) ==
  /\ Len(suf) <= Len(s)
  /\ SubSeq(s, Len(s) - Len(suf) + 1, Len(s)) = suf

\* sub in s
Contains(s, sub) ==
  \E k \in 1..(Len(s) - Len(sub) + 1) : SubSeq(s, k, k + Len(sub) - 1) = sub

S_point_media_id == <<"p","o","i","n","t",".","m","e","d","i","a",".","i","d">>
S_media_dot_id == <<"m","e","d","i","a",".","i","d">>
S_media_id == <<"m","e","d","i","a","_","i","d">>
S_point_media__id == <<"p","o","i","n","t","_","m","e","d","i","a","_","i","d">>
S_point_media_uid == <<"p","o","i","n","t",".","m","e","d","i","a","_","i","d">>
S_media == <<"m","e","d","i","a">>
S_id == <<"i","d">>

\* the tuple passed to endswith()
CanonicalSuffixes == {S_point_media_id, S_media_dot_id, S_media_id, S_point_media__id}

\* Column names observed in exports, used as inputs
C_Point_Media_ID == <<"P","o","i","n","t",".","M","e","d","i","a",".","I","D">>
C_other_media_id_ref == <<"o","t","h","e","r","_","m","e","d","i","a","_","i","d","_","r","e","f">>
C_id_of_media == <<"i","d","_","o","f","_","m","e","d","i","a">>
C_media_key == <<"m","e","d","i","a",".","k","e","y">>
C_label_name == <<"l","a","b","e","l",".","n","a","m","e">>
C_annotation_set_id == <<"a","n","n","o","t","a","t","i","o","n","_","s","e","t","_","i","d">>
C_collection_id == <<"c","o","l","l","e","c","t","i","o","n","_","i","d">>

ColumnNames ==
  { S_id, S_point_media_id, C_Point_Media_ID, C_other_media_id_ref,
    C_id_of_media, C_media_key, C_label_name }

\* Duplicate-free sequences over S of length at most n (DataFrame column lists)
RECURSIVE SeqsUpTo(_, _)
SeqsUpTo(S, n) ==
  IF n = 0 THEN {<<>>}
  ELSE LET shorter == SeqsUpTo(S, n - 1)
       IN shorter \cup { Append(p, x) : p \in {q \in shorter : Len(q) = n - 1}, x \in S }

NoDup(s) == \A a, b \in 1..Len(s) : a # b => s[a] # s[b]

ColumnLists(n) == { s \in SeqsUpTo(ColumnNames, n) : NoDup(s) }

Min(a, b) == IF a < b THEN a ELSE b

(***************************************************************************)
(* detect_ann_media_col                                                    *)
(***************************************************************************)
FirstColsShown == 20

IsCand(c) == \E suf \in CanonicalSuffixes : EndsWith(Lower(c), suf)

IsLoose(c) == Contains(Lower(c), S_media) /\ Contains(Lower(c), S_id)

\* first element of cols satisfying P; callers guarantee one exists
FirstIndex(cols, P(_)) == CHOOSE k \in 1..Len(cols) : P(cols[k]) /\ \A j \in 1..(k - 1) : ~P(cols[j])

\* mutant: the loose substring test takes precedence over the suffix list
detect_ann_media_col_loose_first(cols) ==
  IF \E k \in 1..Len(cols) : IsLoose(cols[k])
    THEN [kind |-> "ok", col |-> cols[FirstIndex(cols, IsLoose)], shown |-> <<>>]
    ELSE [kind |-> "ValueError", col |-> <<>>,
          shown |-> SubSeq(cols, 1, Min(Len(cols), FirstColsShown))]

detect_ann_media_col(cols) ==
  IF \E k \in 1..Len(cols) : IsCand(cols[k])
    THEN [kind |-> "ok", col |-> cols[FirstIndex(cols, IsCand)], shown |-> <<>>]
  ELSE IF \E k \in 1..Len(cols) : IsLoose(cols[k])
    THEN [kind |-> "ok", col |-> cols[FirstIndex(cols, IsLoose)], shown |-> <<>>]
  ELSE [kind |-> "ValueError", col |-> <<>>,
        shown |-> SubSeq(cols, 1, Min(Len(cols), FirstColsShown))]

(***************************************************************************)
(* Cell values and the numeric coercions applied to them                   *)
(***************************************************************************)
\* a cell as read from CSV / JSON: null, an integer n, the non-integral
\* number n + 1/2, or non-numeric text
Null == [t |-> "null", v |-> 0]
IntV(n) == [t |-> "int", v |-> n]
FracV(n) == [t |-> "frac", v |-> n]
\* non-numeric text; n tells different texts apart
Text(n) == [t |-> "text", v |-> n]
TextV == Text(0)
\* a string made of digits, such as "7" or "007", whose numeric value is n
NumStr(n) == [t |-> "numstr", v |-> n]

\* pd.to_numeric(x, errors="coerce"): unparseable and null become NaN
to_numeric_coerce(x) ==
  IF x.t \in {"int", "frac"} THEN x
  ELSE IF x.t = "numstr" THEN IntV(x.v)
  ELSE Null

\* Series.astype("Int64") on a numeric series: NaN becomes <NA>, an integral
\* float becomes the integer, and any non-integral element makes the whole
\* cast raise TypeError (cannot safely cast non-equivalent float64 to int64)
astype_Int64_raises(series) == \E k \in 1..Len(series) : series[k].t = "frac"

\* Series.isin(pd.Index(media_ids, dtype="Int64")), element-wise; <NA> is in nothing
isin(x, media_ids) == x.t = "int" /\ x.v \in media_ids

(***************************************************************************)
(* Tables: [cols |-> column names, rows |-> sequence of rows], a row being *)
(* a sequence of cells, one per column                                     *)
(***************************************************************************)
EmptyDf(cols) == [cols |-> cols, rows |-> <<>>]

\* DataFrame.empty: some axis has length 0
IsEmpty(df) == Len(df.rows) = 0 \/ Len(df.cols) = 0

ColIndex(df, c) == CHOOSE k \in 1..Len(df.cols) : df.cols[k] = c

\* df[c] as a sequence of cells
Column(df, c) == [k \in 1..Len(df.rows) |-> df.rows[k][ColIndex(df, c)]]

\* df[mask]
RECURSIVE MaskSeq(_, _)
MaskSeq(rows, mask) ==
  IF rows = <<>> THEN <<>>
  ELSE IF Head(mask) THEN <<Head(rows)>> \o MaskSeq(Tail(rows), Tail(mask))
  ELSE MaskSeq(Tail(rows), Tail(mask))

(***************************************************************************)
(* post_filter_ann_to_media_ids                                            *)
(* result: kind "ok" with the filtered table, or the exception raised;     *)
(* detected records whether detect_ann_media_col was called                *)
(***************************************************************************)
FilterOutcome(kind, df, detected) == [kind |-> kind, df |-> df, detected |-> detected]

\* mutant: no early return for an empty table
post_filter_no_empty_guard(ann_df, media_ids) ==
  LET det == detect_ann_media_col(ann_df.cols) IN
  IF det.kind # "ok" THEN FilterOutcome("ValueError", EmptyDf(<<>>), TRUE)
  ELSE LET mids == [k \in 1..Len(ann_df.rows) |-> to_numeric_coerce(Column(ann_df, det.col)[k])] IN
       IF astype_Int64_raises(mids) THEN FilterOutcome("TypeError", EmptyDf(<<>>), TRUE)
       ELSE LET keep == [k \in 1..Len(mids) |-> isin(mids[k], media_ids)] IN
            FilterOutcome("ok", [cols |-> ann_df.cols, rows |-> MaskSeq(ann_df.rows, keep)], TRUE)

\* mutant: the membership test is dropped, every coercible row is kept
post_filter_no_membership(ann_df, media_ids) ==
  IF IsEmpty(ann_df) THEN FilterOutcome("ok", ann_df, FALSE)
  ELSE
  LET det == detect_ann_media_col(ann_df.cols) IN
  IF det.kind # "ok" THEN FilterOutcome("ValueError", EmptyDf(<<>>), TRUE)
  ELSE LET mids == [k \in 1..Len(ann_df.rows) |-> to_numeric_coerce(Column(ann_df, det.col)[k])] IN
       IF astype_Int64_raises(mids) THEN FilterOutcome("TypeError", EmptyDf(<<>>), TRUE)
       ELSE LET keep == [k \in 1..Len(mids) |-> mids[k].t = "int"] IN
            FilterOutcome("ok", [cols |-> ann_df.cols, rows |-> MaskSeq(ann_df.rows, keep)], TRUE)

post_filter_ann_to_media_ids(ann_df, media_ids) ==
  IF IsEmpty(ann_df) THEN FilterOutcome("ok", ann_df, FALSE)
  ELSE
  LET det == detect_ann_media_col(ann_df.cols) IN
  IF det.kind # "ok" THEN FilterOutcome("ValueError", EmptyDf(<<>>), TRUE)
  ELSE LET mids == [k \in 1..Len(ann_df.rows) |-> to_numeric_coerce(Column(ann_df, det.col)[k])] IN
       IF astype_Int64_raises(mids) THEN FilterOutcome("TypeError", EmptyDf(<<>>), TRUE)
       ELSE LET keep == [k \in 1..Len(mids) |-> isin(mids[k], media_ids)] IN
            FilterOutcome("ok", [cols |-> ann_df.cols, rows |-> MaskSeq(ann_df.rows, keep)], TRUE)

(***************************************************************************)
(* JSON records and get_by_dotted                                          *)
(* a JSON object is [t |-> "dict", d |-> function from keys to values]; a  *)
(* JSON array is [t |-> "list", v |-> 0]; scalars are cells                *)
(***************************************************************************)
K_point == <<"p","o","i","n","t">>
K_annotation_set_id == C_annotation_set_id
S_point_annotation_set_id == K_point \o <<".">> \o C_annotation_set_id

Dict(f) == [t |-> "dict", d |-> f]
JsonList == [t |-> "list", v |-> 0]
\* the remote call raised instead of returning
Raised == [t |-> "raise", v |-> 0]
EmptyStr == [t |-> "str", v |-> 0]
\* Python None used as a default
None == Null

IsDict(x) == x.t = "dict"

\* dotted.split(".")
RECURSIVE Split(_)
Split(s) ==
  IF \E k \in 1..Len(s) : s[k] = "."
    THEN LET k == CHOOSE j \in 1..Len(s) : s[j] = "." /\ \A h \in 1..(j - 1) : s[h] # "."
         IN <<SubSeq(s, 1, k - 1)>> \o Split(SubSeq(s, k + 1, Len(s)))
    ELSE <<s>>

RECURSIVE Descend(_, _, _)
Descend(cur, parts, default) ==
  IF parts = <<>> THEN cur
  ELSE IF IsDict(cur) /\ Head(parts) \in DOMAIN cur.d
    THEN Descend(cur.d[Head(parts)], Tail(parts), default)
  ELSE default

get_by_dotted(d, dotted, default) == Descend(d, Split(dotted), default)

\* int(x) for a JSON scalar: raises on non-numeric text
int_raises(x) == x.t \notin {"int", "frac", "numstr"}
int_of(x) == x.v

(***************************************************************************)
(* fetch_annotations_by_ids_for_media_via_get                              *)
(***************************************************************************)
ENFORCE_ANNSET == TRUE

\* {k: get_by_dotted(js, k, "") for k in ann_fields}
ProjectRow(js, ann_fields) ==
  [k \in 1..Len(ann_fields) |-> get_by_dotted(js, ann_fields[k], EmptyStr)]

\* mutant: the media ownership check is left out
ResolveBody_no_media_check(resp, media_id, annset_id, ann_fields) ==
  IF resp = Raised THEN [kind |-> "failed", row |-> <<>>]
  ELSE IF ~IsDict(resp) \/ get_by_dotted(resp, S_id, None) = None
    THEN [kind |-> "not found", row |-> <<>>]
  ELSE
  LET annset_from_ann ==
        get_by_dotted(resp, K_annotation_set_id,
                      get_by_dotted(resp, S_point_annotation_set_id, None))
  IN
  IF annset_id # None /\ ENFORCE_ANNSET /\ annset_from_ann = None
    THEN [kind |-> "other set", row |-> <<>>]
  ELSE IF annset_id # None /\ ENFORCE_ANNSET /\ int_raises(annset_from_ann)
    THEN [kind |-> "failed", row |-> <<>>]
  ELSE IF annset_id # None /\ ENFORCE_ANNSET /\ int_of(annset_from_ann) # int_of(annset_id)
    THEN [kind |-> "other set", row |-> <<>>]
  ELSE [kind |-> "row", row |-> ProjectRow(resp, ann_fields)]

\* one iteration of the loop body for the response resp to GET /api/annotation/<aid>:
\* "row" with the projected row, or the reason the identifier is skipped
ResolveBody(resp, media_id, annset_id, ann_fields) ==
  IF resp = Raised THEN [kind |-> "failed", row |-> <<>>]
  ELSE IF ~IsDict(resp) \/ get_by_dotted(resp, S_id, None) = None
    THEN [kind |-> "not found", row |-> <<>>]
  ELSE
  LET media_from_ann ==
        get_by_dotted(resp, S_point_media_id, get_by_dotted(resp, S_point_media_uid, None))
  IN
  IF media_from_ann = None THEN [kind |-> "other media", row |-> <<>>]
  ELSE IF int_raises(media_from_ann) THEN [kind |-> "failed", row |-> <<>>]
  ELSE IF int_of(media_from_ann) # media_id THEN [kind |-> "other media", row |-> <<>>]
  ELSE
  LET annset_from_ann ==
        get_by_dotted(resp, K_annotation_set_id,
                      get_by_dotted(resp, S_point_annotation_set_id, None))
  IN
  IF annset_id # None /\ ENFORCE_ANNSET /\ annset_from_ann = None
    THEN [kind |-> "other set", row |-> <<>>]
  ELSE IF annset_id # None /\ ENFORCE_ANNSET /\ int_raises(annset_from_ann)
    THEN [kind |-> "failed", row |-> <<>>]
  ELSE IF annset_id # None /\ ENFORCE_ANNSET /\ int_of(annset_from_ann) # int_of(annset_id)
    THEN [kind |-> "other set", row |-> <<>>]
  ELSE [kind |-> "row", row |-> ProjectRow(resp, ann_fields)]

\* the table built after the loop
ResolveTable(rows, ann_fields) == [cols |-> ann_fields, rows |-> rows]

(***************************************************************************)
(* The remote export endpoint and the two transports of its result         *)
(***************************************************************************)
S_key == <<"k","e","y">>
S_path_best == <<"p","a","t","h","_","b","e","s","t">>
K_deployment == <<"d","e","p","l","o","y","m","e","n","t">>
S_deployment_id == K_deployment \o <<".">> \o S_id
K_label == <<"l","a","b","e","l">>

\* leaf paths a record of either resource can carry, in record order
MediaPaths == <<S_id, S_key, S_path_best, S_deployment_id>>
AnnPaths == <<S_id, C_annotation_set_id, S_point_media_id, S_point_media_uid, C_label_name>>

Missing == [t |-> "missing", v |-> 0]

InSeq(x, s) == \E k \in 1..Len(s) : s[k] = x

\* pd.json_normalize(recs): one column per dotted leaf path that some record
\* carries, a record lacking the path gets NaN
json_normalize(recs, paths) ==
  LET Carried(c) == \E k \in 1..Len(recs) : get_by_dotted(recs[k], c, Missing) # Missing
      cols == SelectSeq(paths, Carried)
  IN [cols |-> cols,
      rows |-> [k \in 1..Len(recs) |->
                  [j \in 1..Len(cols) |-> get_by_dotted(recs[k], cols[j], Null)]]]

\* df[keep]: the columns keep, in the order of keep
SelectCols(df, keep) ==
  [cols |-> keep,
   rows |-> [k \in 1..Len(df.rows) |->
               [j \in 1..Len(keep) |-> df.rows[k][ColIndex(df, keep[j])]]]]

\* the text of one CSV field: nothing, a run of digits, or other text.  An
\* integer and a string of digits are written the same way.
CsvField(x) ==
  IF x.t \in {"null", "str"} THEN [k |-> "empty", v |-> 0]
  ELSE IF x.t \in {"int", "numstr"} THEN [k |-> "digits", v |-> x.v]
  ELSE IF x.t = "frac" THEN [k |-> "decimal", v |-> x.v]
  ELSE [k |-> "other", v |-> x.v]

\* DataFrame.to_csv on the server
to_csv(df) ==
  [cols |-> df.cols,
   rows |-> [k \in 1..Len(df.rows) |-> [j \in 1..Len(df.cols) |-> CsvField(df.rows[k][j])]]]

\* pd.read_csv: a column whose fields are all empty or numbers is numeric,
\* any other column keeps its fields as strings; empty fields are NaN
read_csv(csv) ==
  LET Numeric(j) == \A k \in 1..Len(csv.rows) : csv.rows[k][j].k \in {"empty", "digits", "decimal"}
      Cell(f, j) ==
        IF f.k = "empty" THEN Null
        ELSE IF f.k = "digits" THEN (IF Numeric(j) THEN IntV(f.v) ELSE NumStr(f.v))
        ELSE IF f.k = "decimal" THEN FracV(f.v)
        ELSE Text(f.v)
  IN [cols |-> csv.cols,
      rows |-> [k \in 1..Len(csv.rows) |-> [j \in 1..Len(csv.cols) |-> Cell(csv.rows[k][j], j)]]]

\* the service's json_normalize + dataframe.csv pipeline: the flattened
\* records restricted to the requested columns (all of them when none is
\* requested), as CSV text
ServerCsv(recs, paths, include) ==
  LET df == json_normalize(recs, paths)
      Wanted(c) == include = <<>> \/ InSeq(c, include)
  IN to_csv(SelectCols(df, SelectSeq(df.cols, Wanted)))

(***************************************************************************)
(* export_media_collection_csv / export_annotation_set_csv                 *)
(* requests are [resource, include, file_op, template]                     *)
(***************************************************************************)
Request(resource, include, file_op, template) ==
  [resource |-> resource, include |-> include, file_op |-> file_op, template |-> template]

ExportOutcome(kind, df) == [kind |-> kind, df |-> df]

\* the request of the try block, the same for both exporters
PreferredRequest(resource, include) == Request(resource, include, "json_normalize", "dataframe.csv")

\* return pd.read_csv(io.StringIO(r.text))
PreferredTable(recs, paths, include) == read_csv(ServerCsv(recs, paths, include))

\* mutant: the fallback repeats the preferred request
MediaFallbackRequest_retry(include) == PreferredRequest("media_collection", include)

\* export_media_collection_csv, except block
MediaFallbackRequest(include) == Request("media_collection", include, "none", "json")

MediaFallbackTable(recs, include) ==
  LET df == json_normalize(recs, MediaPaths)
      InDf(c) == InSeq(c, df.cols)
      keep == SelectSeq(include, InDf)
  IN IF keep # <<>> THEN SelectCols(df, keep) ELSE df

\* export_annotation_set_csv, except block: "retry without include_columns"
AnnFallbackRequest == Request("annotation_set", <<>>, "json_normalize", "dataframe.csv")

AnnFallbackTable(recs, include_columns) ==
  LET df == read_csv(ServerCsv(recs, AnnPaths, <<>>))
      InDf(c) == InSeq(c, df.cols)
      cols == SelectSeq(include_columns, InDf)
  IN IF include_columns # <<>> /\ cols # <<>> THEN SelectCols(df, cols) ELSE df

(***************************************************************************)
(* export_all_annotations_for_media                                        *)
(***************************************************************************)
\* the two loops over ("point.media.id", "point.media_id"): CSV first, then JSON
Attempts ==
  << [template |-> "dataframe.csv", media_field |-> S_point_media_id],
     [template |-> "dataframe.csv", media_field |-> S_point_media_uid],
     [template |-> "json", media_field |-> S_point_media_id],
     [template |-> "json", media_field |-> S_point_media_uid] >>

AttemptRequest(att, media_id, annset, ann_fields) ==
  [resource |-> "annotation", include |-> ann_fields,
   filters |-> (IF annset # None THEN <<<<C_annotation_set_id, int_of(annset)>>>> ELSE <<>>)
               \o <<<<att.media_field, media_id>>>>,
   file_op |-> IF att.template = "json" THEN "none" ELSE "json_normalize",
   template |-> att.template]

\* df[pd.to_numeric(df[col], errors="coerce").astype("Int64") == int(media_id)]
HardFilter(df, col, media_id) ==
  LET mids == [k \in 1..Len(df.rows) |-> to_numeric_coerce(Column(df, col)[k])]
      keep == [k \in 1..Len(mids) |-> mids[k].t = "int" /\ mids[k].v = media_id]
  IN [cols |-> df.cols, rows |-> MaskSeq(df.rows, keep)]

\* the body of one try block, given the records the service answered with
\* (served.raised when the request failed): "ok" with the returned table
\* or "except" when anything inside the try raised
AttemptBody(att, served, media_id, ann_fields) ==
  IF served.raised THEN [kind |-> "except", df |-> EmptyDf(<<>>)]
  ELSE
  LET df == IF att.template = "dataframe.csv"
              THEN read_csv(ServerCsv(served.recs, AnnPaths, ann_fields))
              ELSE json_normalize(served.recs, AnnPaths)
  IN
  IF IsEmpty(df) THEN [kind |-> "ok", df |-> df]
  ELSE
  LET det == detect_ann_media_col(df.cols) IN
  IF det.kind # "ok" THEN [kind |-> "except", df |-> EmptyDf(<<>>)]
  ELSE IF astype_Int64_raises([k \in 1..Len(df.rows) |-> to_numeric_coerce(Column(df, det.col)[k])])
    THEN [kind |-> "except", df |-> EmptyDf(<<>>)]
  ELSE [kind |-> "ok", df |-> HardFilter(df, det.col, media_id)]

(***************************************************************************)
(* download_images_from_export                                             *)
(***************************************************************************)
\* URLs: one that can be fetched and decoded, one that cannot
UrlGood == Text(1)
UrlBad == Text(2)

\* SQMediaObject(url).data() followed by imwrite succeeds
FetchOk(url) == url = UrlGood

NoPath == <<>>
\* out_dir / f"{mid}_{basename(url)}"
PathOf(mid, url) == <<mid, url>>

\* str(row.get(url_col, "") or ""): "" stays "", NaN gives the string "nan"
UrlOf(cell) == IF cell.t = "str" THEN EmptyStr ELSE cell

\* mutant: no try/except around the download
one_no_catch(mid, url) ==
  IF FetchOk(url) THEN [exc |-> FALSE, mid |-> mid, p |-> PathOf(mid, url)]
  ELSE [exc |-> TRUE, mid |-> mid, p |-> NoPath]

\* _one(mid, url): the result the future holds
one(mid, url) ==
  IF FetchOk(url) THEN [exc |-> FALSE, mid |-> mid, p |-> PathOf(mid, url)]
  ELSE [exc |-> FALSE, mid |-> mid, p |-> NoPath]

\* mutant: the mapping is rebuilt for every completed future
Store_reset(saved_map, res) ==
  IF res.p # NoPath THEN [x \in {res.mid} |-> res.p] ELSE saved_map

\* mid, p = fut.result(); if p: saved[mid] = p
Store(saved_map, res) ==
  IF res.p # NoPath
    THEN [x \in (DOMAIN saved_map) \cup {res.mid} |-> IF x = res.mid THEN res.p ELSE saved_map[x]]
    ELSE saved_map

\* the mapping the call returns when every future is collected in row order
RECURSIVE DownloadAll(_, _)
DownloadAll(dfrows, saved_map) ==
  IF dfrows = <<>> THEN saved_map
  ELSE LET mid == Head(dfrows)[1].v
           url == UrlOf(Head(dfrows)[2])
       IN IF url = EmptyStr THEN DownloadAll(Tail(dfrows), saved_map)
          ELSE DownloadAll(Tail(dfrows), Store(saved_map, one(mid, url)))

(***************************************************************************)
(* __main__ of image_collection_with_ann.py                                *)
(***************************************************************************)
COLLECTION_ID == 14233
ANNSET_ID == 17711
DOWNLOAD_IMAGES == TRUE

\* ann_df[name] = value
AddColumn(df, name, value) ==
  [cols |-> Append(df.cols, name),
   rows |-> [k \in 1..Len(df.rows) |-> Append(df.rows[k], IntV(value))]]

\* ann_df["collection_id"] = COLLECTION_ID and, if the column is not there,
\* ann_df["annotation_set_id"] = ANNSET_ID
Provenance(df) ==
  LET withColl == AddColumn(df, C_collection_id, COLLECTION_ID)
  IN IF InSeq(C_annotation_set_id, withColl.cols) THEN withColl
     ELSE AddColumn(withColl, C_annotation_set_id, ANNSET_ID)

\* media_df["id"].astype(int).tolist()
IdList(df) == { Column(df, S_id)[k].v : k \in 1..Len(df.rows) }

(***************************************************************************)
(* Input tables                                                            *)
(***************************************************************************)
\* rows of a table over cols whose "id" cell is the row number and whose
\* other cells range over cells
RowsFor(cols, k, cells) ==
  { r \in [1..Len(cols) -> cells \cup {IntV(k)}] :
      \A j \in 1..Len(cols) : IF cols[j] = S_id THEN r[j] = IntV(k) ELSE r[j] \in cells }

RECURSIVE TablesOver(_, _, _)
TablesOver(cols, n, cells) ==
  IF n = 0 THEN {EmptyDf(cols)}
  ELSE LET shorter == TablesOver(cols, n - 1, cells)
       IN shorter \cup
          { [cols |-> cols, rows |-> Append(t.rows, r)] :
              t \in {u \in shorter : Len(u.rows) = n - 1}, r \in RowsFor(cols, n, cells) }

FilterColumnLists ==
  { <<S_id, S_point_media_id>>,
    <<S_id, C_other_media_id_ref, S_point_media_id>>,
    <<S_id, C_id_of_media>>,
    <<S_id, C_label_name>> }

FilterCells == {Null, TextV, FracV(1)} \cup {IntV(n) : n \in 1..MaxId}

(***************************************************************************)
(* Remote annotation records served by GET /api/annotation/<id>            *)
(***************************************************************************)
K_media == S_media
K_media_id == S_media_id
K_id == S_id

\* target media M and another media M2; target annotation set and another
M == 1
M2 == 2
SetA == 7
SetB == 8

\* the "point" object under its schema variants
PointVariants ==
  { Dict([k \in {K_media} |-> Dict([j \in {K_id} |-> IntV(M)])]),
    Dict([k \in {K_media} |-> Dict([j \in {K_id} |-> IntV(M2)])]),
    Dict([k \in {K_media} |-> Dict([j \in {K_id} |-> TextV])]),
    Dict([k \in {K_media_id} |-> IntV(M)]),
    Dict([k \in {K_media, K_media_id} |->
            IF k = K_media THEN Dict([j \in {K_id} |-> Null]) ELSE IntV(M)]),
    Dict([k \in {K_media, K_annotation_set_id} |->
            IF k = K_media THEN Dict([j \in {K_id} |-> IntV(M)]) ELSE IntV(SetA)]),
    Dict([k \in {K_annotation_set_id} |-> IntV(SetA)]) }

AnnRecords(aid) ==
  { Dict([k \in {K_id, K_point} |-> IF k = K_id THEN IntV(aid) ELSE pt]) : pt \in PointVariants }
  \cup
  { Dict([k \in {K_id, K_point, K_annotation_set_id} |->
            IF k = K_id THEN IntV(aid) ELSE IF k = K_point THEN pt ELSE IntV(st)]) :
      pt \in PointVariants, st \in {SetA, SetB} }

Responses(aid) ==
  AnnRecords(aid) \cup
  { Raised, JsonList,
    Dict([k \in {K_id} |-> Null]),
    Dict([k \in {K_point} |-> Dict([j \in {K_media_id} |-> IntV(M)])]) }

AnnIds == {1, 2}

RECURSIVE ListsUpTo(_, _)
ListsUpTo(S, n) ==
  IF n = 0 THEN {<<>>}
  ELSE LET shorter == ListsUpTo(S, n - 1)
       IN shorter \cup { Append(p, x) : p \in {q \in shorter : Len(q) = n - 1}, x \in S }

ResolverFields == <<S_id, S_point_media_id, C_annotation_set_id>>

\* records of the media collection resource
MediaRecord(k, key, dep) ==
  IF dep
    THEN Dict([f \in {S_id, S_key, S_path_best, K_deployment} |->
                 IF f = S_id THEN IntV(k)
                 ELSE IF f = S_key THEN key
                 ELSE IF f = S_path_best THEN TextV
                 ELSE Dict([j \in {K_id} |-> IntV(5)])])
    ELSE Dict([f \in {S_id, S_key, S_path_best} |->
                 IF f = S_id THEN IntV(k) ELSE IF f = S_key THEN key ELSE TextV])

MediaRecords(k) == { MediaRecord(k, key, dep) : key \in {TextV, NumStr(7), Null}, dep \in BOOLEAN }

\* records of the annotation resources: media reference x under either spelling
AnnRecord(k, x, spelling) ==
  Dict([f \in {S_id, K_point, K_label} |->
          IF f = S_id THEN IntV(k)
          ELSE IF f = K_label THEN Dict([j \in {<<"n","a","m","e">>} |-> TextV])
          ELSE IF spelling = 1 THEN Dict([j \in {K_media} |-> Dict([h \in {K_id} |-> x])])
          ELSE Dict([j \in {K_media_id} |-> x])])

AnnExportRecords(k) ==
  { AnnRecord(k, x, 1) : x \in {IntV(M), IntV(M2), TextV} } \cup { AnnRecord(k, IntV(M), 2) }

\* record lists of length at most n, the k-th record drawn from Recs(k)
RECURSIVE RecordLists(_, _)
RecordLists(Recs(_), n) ==
  IF n = 0 THEN {<<>>}
  ELSE LET shorter == RecordLists(Recs, n - 1)
       IN shorter \cup { Append(p, r) : p \in {q \in shorter : Len(q) = n - 1}, r \in Recs(n) }

\* all orders of a set, as sequences
Perms(S) == { q \in [1..Cardinality(S) -> S] : \A a, b \in 1..Cardinality(S) : a # b => q[a] # q[b] }

SeqToSet(q) == { q[k] : k \in 1..Len(q) }

MediaIncludeArgs == { <<>>, <<S_key>>, <<S_key, S_deployment_id>> }
AnnIncludeArgs == { <<>>, <<S_id, S_point_media_id>>, <<C_label_name, C_collection_id>>, <<C_collection_id>> }
ExportAllFields == { ResolverFields, <<S_id, C_label_name>> }

VARIABLES detPc, columns, detResults,
          fltPc, ann_df, media_ids, fltResult,
          resPc, annotation_ids, remoteAnn, annset_id, resI, rows, skipped, resResult,
          expPc, expWhich, remoteRecs, include_columns, include, prefOk, fbOk, requests, expResult,
          xaPc, xaRecs, xaServes, xaFields, xaAnnset, xaK, xaRequests, xaResult,
          dlPc, media_df, max_workers, dlI, futs, collected, saved,
          mainPc, remoteMedia, remoteAnns, media_csv, ann_csv

detVars == <<detPc, columns, detResults>>
fltVars == <<fltPc, ann_df, media_ids, fltResult>>
resVars == <<resPc, annotation_ids, remoteAnn, annset_id, resI, rows, skipped, resResult>>
expVars == <<expPc, expWhich, remoteRecs, include_columns, include, prefOk, fbOk, requests, expResult>>
xaVars == <<xaPc, xaRecs, xaServes, xaFields, xaAnnset, xaK, xaRequests, xaResult>>

dlVars == <<dlPc, media_df, max_workers, dlI, futs, collected, saved>>
mainVars == <<mainPc, remoteMedia, remoteAnns, media_csv, ann_csv>>

vars == <<detVars, fltVars, resVars, expVars, xaVars, dlVars, mainVars>>

exceptDet == <<fltVars, resVars, expVars, xaVars, dlVars, mainVars>>
exceptFlt == <<detVars, resVars, expVars, xaVars, dlVars, mainVars>>
exceptRes == <<detVars, fltVars, expVars, xaVars, dlVars, mainVars>>
exceptExp == <<detVars, fltVars, resVars, xaVars, dlVars, mainVars>>
exceptXa == <<detVars, fltVars, resVars, expVars, dlVars, mainVars>>
exceptDl == <<detVars, fltVars, resVars, expVars, xaVars, mainVars>>

NotWritten == [cols |-> <<>>, rows |-> <<>>, written |-> FALSE]
Written(csv) == [cols |-> csv.cols, rows |-> csv.rows, written |-> TRUE]
NoSaved == [x \in {} |-> NoPath]

IdleDetect == detPc = "idle" /\ columns = <<>> /\ detResults = <<>>
IdleFilter ==
  /\ fltPc = "idle" /\ ann_df = EmptyDf(<<>>) /\ media_ids = {}
  /\ fltResult = FilterOutcome("none", EmptyDf(<<>>), FALSE)
IdleResolver ==
  /\ resPc = "idle" /\ annotation_ids = <<>> /\ remoteAnn = <<>> /\ annset_id = None
  /\ resI = 0 /\ rows = <<>> /\ skipped = <<>> /\ resResult = EmptyDf(<<>>)
IdleExport ==
  /\ expPc = "idle" /\ expWhich = "none" /\ remoteRecs = <<>> /\ include_columns = <<>>
  /\ include = <<>> /\ prefOk = FALSE /\ fbOk = FALSE /\ requests = <<>>
  /\ expResult = ExportOutcome("none", EmptyDf(<<>>))
IdleExportAll ==
  /\ xaPc = "idle" /\ xaRecs = <<>> /\ xaServes = <<>> /\ xaFields = <<>> /\ xaAnnset = None
  /\ xaK = 0 /\ xaRequests = <<>> /\ xaResult = ExportOutcome("none", EmptyDf(<<>>))
IdleDownload ==
  /\ dlPc = "idle" /\ media_df = EmptyDf(<<>>) /\ max_workers = 0 /\ dlI = 0
  /\ futs = <<>> /\ collected = <<>> /\ saved = NoSaved
IdleMain ==
  /\ mainPc = "idle" /\ remoteMedia = <<>> /\ remoteAnns = <<>>
  /\ media_csv = NotWritten /\ ann_csv = NotWritten

----------------------------------------------------------------------------
(* Join-Key Detector called repeatedly on one table *)

InitDetect ==
  /\ detPc = "ready"
  /\ columns \in ColumnLists(MaxCols)
  /\ detResults = <<>>

DetectCall ==
  /\ detPc = "ready"
  /\ Len(detResults) < MaxCalls
  /\ detResults' = Append(detResults, detect_ann_media_col(columns))
  /\ UNCHANGED <<detPc, columns>>
  /\ UNCHANGED exceptDet

----------------------------------------------------------------------------
(* Referential Filter applied to one annotation table *)

InitFilter ==
  /\ fltPc = "ready"
  /\ \E cols \in FilterColumnLists : ann_df \in TablesOver(cols, MaxRows, FilterCells)
  /\ media_ids \in SUBSET (1..MaxId)
  /\ fltResult = FilterOutcome("none", EmptyDf(<<>>), FALSE)

FilterCall ==
  /\ fltPc = "ready"
  /\ fltResult' = post_filter_ann_to_media_ids(ann_df, media_ids)
  /\ fltPc' = "done"
  /\ UNCHANGED <<ann_df, media_ids>>
  /\ UNCHANGED exceptFlt

----------------------------------------------------------------------------
(* Per-Identifier Resolver: one call for media M; remoteAnn is what the *)
(* service answers for each identifier *)

InitResolver ==
  /\ resPc = "loop"
  /\ annotation_ids \in ListsUpTo(AnnIds, MaxIds)
  /\ remoteAnn \in [AnnIds -> UNION {Responses(a) : a \in AnnIds}]
  /\ \A a \in AnnIds : remoteAnn[a] \in Responses(a)
  /\ annset_id \in {None, IntV(SetA)}
  /\ resI = 1 /\ rows = <<>> /\ skipped = <<>> /\ resResult = EmptyDf(<<>>)

\* one iteration of `for aid in annotation_ids`
ResolveOne ==
  /\ resPc = "loop"
  /\ resI <= Len(annotation_ids)
  /\ LET aid == annotation_ids[resI]
         out == ResolveBody(remoteAnn[aid], M, annset_id, ResolverFields)
     IN IF out.kind = "row"
          THEN rows' = Append(rows, out.row) /\ UNCHANGED skipped
          ELSE skipped' = Append(skipped, <<aid, out.kind>>) /\ UNCHANGED rows
  /\ resI' = resI + 1
  /\ UNCHANGED <<resPc, annotation_ids, remoteAnn, annset_id, resResult>>
  /\ UNCHANGED exceptRes

\* after the loop: build the DataFrame and return
ResolveReturn ==
  /\ resPc = "loop"
  /\ resI > Len(annotation_ids)
  /\ resResult' = ResolveTable(rows, ResolverFields)
  /\ resPc' = "done"
  /\ UNCHANGED <<annotation_ids, remoteAnn, annset_id, resI, rows, skipped>>
  /\ UNCHANGED exceptRes

----------------------------------------------------------------------------
(* Schema-Tolerant Exporter: one call of export_media_collection_csv or of *)
(* export_annotation_set_csv against a service holding remoteRecs; prefOk  *)
(* and fbOk say whether the try block and the except block run to their    *)
(* return (request answered, answer parsed) or raise                       *)

InitExport ==
  /\ expPc = "preferred"
  /\ expWhich \in {"media", "annset"}
  /\ prefOk \in BOOLEAN /\ fbOk \in BOOLEAN
  /\ requests = <<>>
  /\ expResult = ExportOutcome("none", EmptyDf(<<>>))
  /\ IF expWhich = "media"
       THEN /\ remoteRecs \in RecordLists(MediaRecords, MaxRecs) \ {<<>>}
            /\ include_columns \in MediaIncludeArgs
            \* include = list(set((include_columns or []) + ["id","path_best"]))
            /\ include \in Perms(SeqToSet(include_columns) \cup {S_id, S_path_best})
       ELSE /\ remoteRecs \in RecordLists(AnnExportRecords, MaxRecs) \ {<<>>}
            /\ include_columns \in AnnIncludeArgs
            /\ include = include_columns

\* the try block
ExportPreferred ==
  /\ expPc = "preferred"
  /\ LET resource == IF expWhich = "media" THEN "media_collection" ELSE "annotation_set"
         paths == IF expWhich = "media" THEN MediaPaths ELSE AnnPaths
     IN /\ requests' = Append(requests, PreferredRequest(resource, include))
        /\ IF prefOk
             THEN /\ expResult' = ExportOutcome("ok", PreferredTable(remoteRecs, paths, include))
                  /\ expPc' = "done"
             ELSE /\ expPc' = "except"
                  /\ UNCHANGED expResult
  /\ UNCHANGED <<expWhich, remoteRecs, include_columns, include, prefOk, fbOk>>
  /\ UNCHANGED exceptExp

\* the except block; an exception raised here reaches the caller
ExportFallback ==
  /\ expPc = "except"
  /\ requests' = Append(requests,
                        IF expWhich = "media" THEN MediaFallbackRequest(include)
                        ELSE AnnFallbackRequest)
  /\ expResult' =
       IF ~fbOk THEN ExportOutcome("error", EmptyDf(<<>>))
       ELSE IF expWhich = "media" THEN ExportOutcome("ok", MediaFallbackTable(remoteRecs, include))
       ELSE ExportOutcome("ok", AnnFallbackTable(remoteRecs, include_columns))
  /\ expPc' = "done"
  /\ UNCHANGED <<expWhich, remoteRecs, include_columns, include, prefOk, fbOk>>
  /\ UNCHANGED exceptExp

----------------------------------------------------------------------------
(* export_all_annotations_for_media for media M: xaServes[k] is how the *)
(* service answers the k-th request: "error" (the request raises), *)
(* "matching" (the records of media M) or "all" (the filter is ignored) *)

Served(recs, how) ==
  IF how = "error" THEN [raised |-> TRUE, recs |-> <<>>]
  ELSE IF how = "all" THEN [raised |-> FALSE, recs |-> recs]
  ELSE LET OfM(r) == get_by_dotted(r, S_point_media_id, get_by_dotted(r, S_point_media_uid, None)) = IntV(M)
       IN [raised |-> FALSE, recs |-> SelectSeq(recs, OfM)]

InitExportAll ==
  /\ xaPc = "try"
  /\ xaRecs \in RecordLists(AnnExportRecords, MaxRecs)
  /\ xaServes \in [1..Len(Attempts) -> {"error", "matching", "all"}]
  /\ xaFields \in ExportAllFields
  /\ xaAnnset \in {None, IntV(SetA)}
  /\ xaK = 1 /\ xaRequests = <<>>
  /\ xaResult = ExportOutcome("none", EmptyDf(<<>>))

\* one iteration of either for loop
ExportAllAttempt ==
  /\ xaPc = "try"
  /\ xaK <= Len(Attempts)
  /\ xaRequests' = Append(xaRequests, AttemptRequest(Attempts[xaK], M, xaAnnset, xaFields))
  /\ LET out == AttemptBody(Attempts[xaK], Served(xaRecs, xaServes[xaK]), M, xaFields)
     IN IF out.kind = "ok"
          THEN xaResult' = ExportOutcome("ok", out.df) /\ xaPc' = "done" /\ UNCHANGED xaK
          ELSE xaK' = xaK + 1 /\ UNCHANGED <<xaResult, xaPc>>
  /\ UNCHANGED <<xaRecs, xaServes, xaFields, xaAnnset>>
  /\ UNCHANGED exceptXa

\* return pd.DataFrame(columns=ann_fields)
ExportAllGiveUp ==
  /\ xaPc = "try"
  /\ xaK > Len(Attempts)
  /\ xaResult' = ExportOutcome("ok", EmptyDf(xaFields))
  /\ xaPc' = "done"
  /\ UNCHANGED <<xaRecs, xaServes, xaFields, xaAnnset, xaK, xaRequests>>
  /\ UNCHANGED exceptXa

----------------------------------------------------------------------------
(* Bulk Asset Downloader: one call of download_images_from_export.  The  *)
(* main thread submits one future per row with a URL, the pool runs at   *)
(* most max_workers of them at a time in submission order, and the main  *)
(* thread then collects the futures as they complete.                    *)

UrlCells == {EmptyStr, Null, UrlGood, UrlBad}

MediaRows(k) == { <<IntV(k), u>> : u \in UrlCells }

InitDownload ==
  /\ dlPc = "submit"
  /\ \E rs \in RecordLists(MediaRows, MaxMedia) : media_df = [cols |-> <<S_id, S_path_best>>, rows |-> rs]
  /\ max_workers \in 1..MaxWorkers
  /\ dlI = 1 /\ futs = <<>> /\ collected = <<>> /\ saved = NoSaved

Running == { k \in 1..Len(futs) : futs[k].st = "running" }

\* one iteration of `for _, row in media_df.iterrows()`
Submit ==
  /\ dlPc = "submit"
  /\ dlI <= Len(media_df.rows)
  /\ LET row == media_df.rows[dlI]
         url == UrlOf(row[2])
     IN IF url = EmptyStr
          THEN UNCHANGED futs
          ELSE futs' = Append(futs, [mid |-> row[1].v, url |-> url, st |-> "queued",
                                     res |-> [exc |-> FALSE, mid |-> 0, p |-> NoPath]])
  /\ dlI' = dlI + 1
  /\ UNCHANGED <<dlPc, media_df, max_workers, collected, saved>>
  /\ UNCHANGED exceptDl

\* the loop is over: the main thread enters as_completed(futs)
SubmitDone ==
  /\ dlPc = "submit"
  /\ dlI > Len(media_df.rows)
  /\ dlPc' = "collect"
  /\ UNCHANGED <<media_df, max_workers, dlI, futs, collected, saved>>
  /\ UNCHANGED exceptDl

\* a free worker takes the oldest queued future
WorkerStart(k) ==
  /\ dlPc \in {"submit", "collect"}
  /\ futs[k].st = "queued"
  /\ \A j \in 1..(k - 1) : futs[j].st # "queued"
  /\ Cardinality(Running) < max_workers
  /\ futs' = [futs EXCEPT ![k].st = "running"]
  /\ UNCHANGED <<dlPc, media_df, max_workers, dlI, collected, saved>>
  /\ UNCHANGED exceptDl

\* the worker returns from _one
WorkerFinish(k) ==
  /\ dlPc \in {"submit", "collect"}
  /\ futs[k].st = "running"
  /\ futs' = [futs EXCEPT ![k].st = "finished", ![k].res = one(futs[k].mid, futs[k].url)]
  /\ UNCHANGED <<dlPc, media_df, max_workers, dlI, collected, saved>>
  /\ UNCHANGED exceptDl

\* one iteration of `for fut in as_completed(futs)`; fut.result() re-raises
\* what the task raised
Collect(k) ==
  /\ dlPc = "collect"
  /\ futs[k].st = "finished"
  /\ ~InSeq(k, collected)
  /\ collected' = Append(collected, k)
  /\ IF futs[k].res.exc
       THEN dlPc' = "raised" /\ UNCHANGED saved
       ELSE saved' = Store(saved, futs[k].res) /\ UNCHANGED dlPc
  /\ UNCHANGED <<media_df, max_workers, dlI, futs>>
  /\ UNCHANGED exceptDl

\* return saved
DownloadReturn ==
  /\ dlPc = "collect"
  /\ Len(collected) = Len(futs)
  /\ dlPc' = "done"
  /\ UNCHANGED <<media_df, max_workers, dlI, futs, collected, saved>>
  /\ UNCHANGED exceptDl

NextDownload ==
  \/ Submit
  \/ SubmitDone
  \/ \E k \in 1..Len(futs) : WorkerStart(k)
  \/ \E k \in 1..Len(futs) : WorkerFinish(k)
  \/ \E k \in 1..Len(futs) : Collect(k)
  \/ DownloadReturn

----------------------------------------------------------------------------
(* The collection pipeline (__main__ of image_collection_with_ann.py)    *)
(* against a service holding remoteMedia and remoteAnns                  *)

MainAnnFields == <<S_id, C_annotation_set_id, S_point_media_id, C_label_name>>
MainMediaFields == <<S_id, S_key, S_path_best>>

MainMediaRecords(k) ==
  { Dict([f \in {S_id, S_key, S_path_best} |->
            IF f = S_id THEN IntV(k) ELSE IF f = S_key THEN TextV ELSE u]) :
      u \in IF k = 1 THEN {UrlGood, UrlBad} ELSE {UrlGood} }

MainRefs == {IntV(1), IntV(2), IntV(4), TextV}
MainAnnRecords(k) == { AnnRecord(k, x, 1) : x \in MainRefs }

InitMain ==
  /\ mainPc = "media"
  /\ remoteMedia \in RecordLists(MainMediaRecords, MaxMainMedia) \ {<<>>}
  /\ remoteAnns \in RecordLists(MainAnnRecords, MaxMainAnns) \ {<<>>}
  /\ media_csv = NotWritten /\ ann_csv = NotWritten
  /\ media_df = EmptyDf(<<>>) /\ media_ids = {} /\ ann_df = EmptyDf(<<>>) /\ saved = NoSaved
  /\ fltPc = "idle" /\ fltResult = FilterOutcome("none", EmptyDf(<<>>), FALSE)
  /\ dlPc = "idle" /\ max_workers = 0 /\ dlI = 0 /\ futs = <<>> /\ collected = <<>>

\* export_media_collection_csv as one call: the table of the preferred path,
\* of the fallback path, or the exception of the fallback
export_media_collection_csv(recs, incl, pOk, fOk) ==
  IF pOk
    THEN ExportOutcome("ok", PreferredTable(recs, MediaPaths, incl))
  ELSE IF fOk THEN ExportOutcome("ok", MediaFallbackTable(recs, incl))
  ELSE ExportOutcome("error", EmptyDf(<<>>))

export_annotation_set_csv(recs, include_cols, pOk, fOk) ==
  IF pOk
    THEN ExportOutcome("ok", PreferredTable(recs, AnnPaths, include_cols))
  ELSE IF fOk THEN ExportOutcome("ok", AnnFallbackTable(recs, include_cols))
  ELSE ExportOutcome("error", EmptyDf(<<>>))

mainRest == <<fltPc, fltResult, dlPc, max_workers, dlI, futs, collected>>
exceptMain == <<detVars, resVars, expVars, xaVars>>

\* 1) media export, media CSV, media_ids
MainMedia ==
  /\ mainPc = "media"
  /\ \E pOk, fOk \in BOOLEAN :
       LET out == export_media_collection_csv(remoteMedia, MainMediaFields, pOk, fOk)
       IN IF out.kind = "ok"
            THEN /\ media_df' = out.df
                 /\ media_csv' = Written(to_csv(out.df))
                 /\ media_ids' = IdList(out.df)
                 /\ mainPc' = "annotations"
            ELSE /\ mainPc' = "raised"
                 /\ UNCHANGED <<media_df, media_csv, media_ids>>
  /\ UNCHANGED <<remoteMedia, remoteAnns, ann_csv, ann_df, saved, mainRest>>
  /\ UNCHANGED exceptMain

\* 2) annotation export
MainAnnExport ==
  /\ mainPc = "annotations"
  /\ \E pOk, fOk \in BOOLEAN :
       LET out == export_annotation_set_csv(remoteAnns, MainAnnFields, pOk, fOk)
       IN IF out.kind = "ok"
            THEN ann_df' = out.df /\ mainPc' = "filter"
            ELSE mainPc' = "raised" /\ UNCHANGED ann_df
  /\ UNCHANGED <<remoteMedia, remoteAnns, media_csv, ann_csv, media_df, media_ids, saved, mainRest>>
  /\ UNCHANGED exceptMain

\* ann_df = post_filter_ann_to_media_ids(ann_df, media_ids)
MainFilter ==
  /\ mainPc = "filter"
  /\ LET out == post_filter_ann_to_media_ids(ann_df, media_ids)
     IN IF out.kind = "ok"
          THEN ann_df' = out.df /\ mainPc' = "provenance"
          ELSE mainPc' = "raised" /\ UNCHANGED ann_df
  /\ UNCHANGED <<remoteMedia, remoteAnns, media_csv, ann_csv, media_df, media_ids, saved, mainRest>>
  /\ UNCHANGED exceptMain

\* provenance columns, then ann_df.to_csv(ann_csv)
MainPersist ==
  /\ mainPc = "provenance"
  /\ ann_df' = Provenance(ann_df)
  /\ ann_csv' = Written(to_csv(ann_df'))
  /\ mainPc' = IF DOWNLOAD_IMAGES THEN "download" ELSE "done"
  /\ UNCHANGED <<remoteMedia, remoteAnns, media_csv, media_df, media_ids, saved, mainRest>>
  /\ UNCHANGED exceptMain

\* 3) saved = download_images_from_export(media_df, img_dir)
MainDownload ==
  /\ mainPc = "download"
  /\ saved' = DownloadAll(SelectCols(media_df, <<S_id, S_path_best>>).rows, NoSaved)
  /\ mainPc' = "done"
  /\ UNCHANGED <<remoteMedia, remoteAnns, media_csv, ann_csv, media_df, media_ids, ann_df, mainRest>>
  /\ UNCHANGED exceptMain

NextMain == MainMedia \/ MainAnnExport \/ MainFilter \/ MainPersist \/ MainDownload

----------------------------------------------------------------------------
StartDetect ==
  /\ InitDetect /\ IdleFilter /\ IdleResolver /\ IdleExport /\ IdleExportAll
  /\ IdleDownload /\ IdleMain

SpecDetect == StartDetect /\ [][DetectCall]_vars

StartFilter ==
  /\ InitFilter /\ IdleDetect /\ IdleResolver /\ IdleExport /\ IdleExportAll
  /\ IdleDownload /\ IdleMain

SpecFilter == StartFilter /\ [][FilterCall]_vars

NextResolver == ResolveOne \/ ResolveReturn

StartResolver ==
  /\ InitResolver /\ IdleDetect /\ IdleFilter /\ IdleExport /\ IdleExportAll
  /\ IdleDownload /\ IdleMain

SpecResolver == StartResolver /\ [][NextResolver]_vars

\* empty inputs to the filter and to the resolver
NextEmptyInput == FilterCall \/ ResolveOne \/ ResolveReturn

StartEmptyInput ==
  /\ \/ InitFilter /\ IdleResolver
     \/ IdleFilter /\ InitResolver
  /\ IdleDetect /\ IdleExport /\ IdleExportAll /\ IdleDownload /\ IdleMain

SpecEmptyInput == StartEmptyInput /\ [][NextEmptyInput]_vars

NextExport == ExportPreferred \/ ExportFallback

StartExport ==
  /\ InitExport /\ IdleDetect /\ IdleFilter /\ IdleResolver /\ IdleExportAll
  /\ IdleDownload /\ IdleMain

SpecExport == StartExport /\ [][NextExport]_vars

NextExportAll == ExportAllAttempt \/ ExportAllGiveUp

StartExportAll ==
  /\ InitExportAll /\ IdleDetect /\ IdleFilter /\ IdleResolver /\ IdleExport
  /\ IdleDownload /\ IdleMain

SpecExportAll == StartExportAll /\ [][NextExportAll]_vars

StartDownload ==
  /\ InitDownload /\ IdleDetect /\ IdleFilter /\ IdleResolver /\ IdleExport
  /\ IdleExportAll /\ IdleMain

SpecDownload == StartDownload /\ [][NextDownload]_vars

StartMain ==
  /\ InitMain /\ IdleDetect /\ IdleResolver /\ IdleExport /\ IdleExportAll

SpecMain == StartMain /\ [][NextMain]_vars

----------------------------------------------------------------------------
(***************************************************************************)
(* Properties                                                              *)
(***************************************************************************)

\* the join-key cell of row k of the table being filtered
KeyCell(df, k) == Column(df, detect_ann_media_col(df.cols).col)[k]

\* the value is an integer (possibly written as digits) that is in ids
CoercesInto(x, ids) == x.t \in {"int", "numstr"} /\ x.v \in ids

\* C1: for every non-empty annotation table with a detectable join key, the
\* Referential Filter returns without error, and it returns exactly the rows
\* whose join-key value coerces to an integer of the media-id set, in order
C1_ReferentialFilter ==
  (fltPc = "done" /\ ~IsEmpty(ann_df) /\ detect_ann_media_col(ann_df.cols).kind = "ok") =>
    /\ fltResult.kind = "ok"
    /\ fltResult.df.cols = ann_df.cols
    /\ LET Kept(r) == \E k \in 1..Len(ann_df.rows) :
                        ann_df.rows[k] = r /\ CoercesInto(KeyCell(ann_df, k), media_ids)
       IN fltResult.df.rows = SelectSeq(ann_df.rows, Kept)

\* C2 as claimed: the preferred request is made first and once, every
\* second request asks for the raw JSON of the same resource with the same
\* field list, and the caller sees an error exactly when the second fails
PreferredShaped(r) == r.file_op = "json_normalize" /\ r.template = "dataframe.csv"

ResourceOf(which) == IF which = "media" THEN "media_collection" ELSE "annotation_set"

RowEquivalent(a, b) ==
  /\ Len(a.rows) = Len(b.rows)
  /\ \A i \in 1..Len(a.cols) : \A j \in 1..Len(b.cols) :
       a.cols[i] = b.cols[j] => \A k \in 1..Len(a.rows) : a.rows[k][i] = b.rows[k][j]

\* C3: a table obtained through the fallback path is row-for-row equivalent
\* to the table the preferred path returns for the same records and fields
C3_FallbackEquivalence ==
  LET paths == IF expWhich = "media" THEN MediaPaths ELSE AnnPaths IN
  (expPc = "done" /\ Len(requests) = 2 /\ expResult.kind = "ok") =>
    RowEquivalent(expResult.df, PreferredTable(remoteRecs, paths, include))

\* C4: the detector returns a column with a canonical suffix when there is
\* one, else the first column containing "media" and "id", else fails
\* listing the first columns; every call on the same columns returns the
\* same; point.media.id wins over other_media_id_ref
C4_JoinKeyDetector ==
  \A n \in 1..Len(detResults) :
    LET r == detResults[n]
        HasSuffix(c) == \E suf \in CanonicalSuffixes : EndsWith(Lower(c), suf)
        Loose(c) == Contains(Lower(c), S_media) /\ Contains(Lower(c), S_id)
        anySuffix == \E k \in 1..Len(columns) : HasSuffix(columns[k])
        anyLoose == \E k \in 1..Len(columns) : Loose(columns[k])
    IN /\ anySuffix => r.kind = "ok" /\ InSeq(r.col, columns) /\ HasSuffix(r.col)
       /\ (~anySuffix /\ anyLoose) =>
            /\ r.kind = "ok"
            /\ \E k \in 1..Len(columns) :
                 /\ columns[k] = r.col /\ Loose(r.col)
                 /\ \A j \in 1..(k - 1) : ~Loose(columns[j])
       /\ (~anySuffix /\ ~anyLoose) =>
            r.kind = "ValueError" /\ r.shown = SubSeq(columns, 1, Min(Len(columns), FirstColsShown))
       /\ r = detResults[1]
       /\ (InSeq(S_point_media_id, columns) /\ InSeq(C_other_media_id_ref, columns)) =>
            /\ r.col # C_other_media_id_ref
            /\ ~InSeq(C_Point_Media_ID, columns) => r.col = S_point_media_id

C4_Witness ==
  /\ Len(detResults) >= 2
  /\ Len(columns) >= 2
  /\ columns[1] = C_other_media_id_ref /\ columns[2] = S_point_media_id
  /\ detResults[2].col = S_point_media_id

\* the media and annotation-set references of a record, under either spelling
MediaRefOf(js) ==
  LET a == Descend(js, <<K_point, K_media, K_id>>, Missing)
  IN IF a # Missing THEN a ELSE Descend(js, <<K_point, K_media_id>>, Missing)

SetRefOf(js) ==
  LET a == Descend(js, <<K_annotation_set_id>>, Missing)
  IN IF a # Missing THEN a ELSE Descend(js, <<K_point, K_annotation_set_id>>, Missing)

Accepted(js, annset) ==
  /\ IsDict(js)
  /\ Descend(js, <<K_id>>, Missing) \notin {Missing, Null}
  /\ MediaRefOf(js) = IntV(M)
  /\ (annset # None /\ ENFORCE_ANNSET) => SetRefOf(js) = annset

\* C5: after any number of iterations the accumulated rows are the
\* projections of exactly the accepted identifiers seen so far, in order,
\* every other identifier seen so far is skipped, and the returned table
\* holds those rows; [A, B] with B on another media yields the row of A
C5_Resolver ==
  resPc \in {"loop", "done"} =>
    LET Acc(a) == Accepted(remoteAnn[a], annset_id)
        sel == SelectSeq(SubSeq(annotation_ids, 1, resI - 1), Acc)
    IN /\ rows = [k \in 1..Len(sel) |-> ProjectRow(remoteAnn[sel[k]], ResolverFields)]
       /\ \A k \in 1..Len(rows) : rows[k][1] = IntV(sel[k])
       /\ Len(rows) + Len(skipped) = resI - 1
       /\ resPc = "done" =>
            /\ resI - 1 = Len(annotation_ids)
            /\ resResult = [cols |-> ResolverFields, rows |-> rows]
            /\ (/\ annotation_ids = <<1, 2>>
                /\ Acc(1)
                /\ MediaRefOf(remoteAnn[2]) = IntV(M2)) =>
                 (Len(resResult.rows) = 1 /\ resResult.rows[1][1] = IntV(1))

C5_Witness ==
  /\ resPc = "done"
  /\ annotation_ids = <<1, 2>>
  /\ Accepted(remoteAnn[1], annset_id)
  /\ MediaRefOf(remoteAnn[2]) = IntV(M2)
  /\ Len(resResult.rows) = 1
  /\ skipped = << <<2, "other media">> >>

\* rows of the media table that carry a URL, and those whose URL can be fetched
WithUrl == { k \in 1..Len(media_df.rows) : UrlOf(media_df.rows[k][2]) # EmptyStr }
Fetchable == { k \in WithUrl : FetchOk(UrlOf(media_df.rows[k][2])) }

\* C6: no exception escapes the call; every key of the mapping is the
\* identifier of a task that finished successfully; with N rows with URLs
\* of which exactly one fails the mapping has N-1 entries
C6_PerItemIsolation ==
  /\ dlPc # "raised"
  /\ \A mid \in DOMAIN saved :
       \E k \in 1..Len(futs) :
         /\ futs[k].mid = mid /\ futs[k].st = "finished"
         /\ FetchOk(futs[k].url) /\ saved[mid] = PathOf(mid, futs[k].url)
  /\ (/\ dlPc = "done"
      /\ Cardinality(WithUrl) = Len(media_df.rows)
      /\ Cardinality(Fetchable) = Len(media_df.rows) - 1) =>
       Cardinality(DOMAIN saved) = Len(media_df.rows) - 1

C6_Witness ==
  /\ dlPc = "done"
  /\ Len(media_df.rows) = 3
  /\ Cardinality(WithUrl) = 3
  /\ Cardinality(Fetchable) = 2
  /\ Cardinality(DOMAIN saved) = 2

\* C7: whatever the worker count and the order in which tasks start, finish
\* and are collected, the tasks submitted are the rows with a URL and the
\* mapping returned is the one determined by the table and the URLs' outcomes
C7_OrderIndependence ==
  /\ dlPc \in {"collect", "done"} =>
       /\ Len(futs) = Cardinality(WithUrl)
       /\ { <<futs[k].mid, futs[k].url>> : k \in 1..Len(futs) }
            = { <<media_df.rows[k][1].v, UrlOf(media_df.rows[k][2])>> : k \in WithUrl }
  /\ dlPc = "done" =>
       /\ DOMAIN saved = { media_df.rows[k][1].v : k \in Fetchable }
       /\ \A k \in Fetchable :
            saved[media_df.rows[k][1].v] = PathOf(media_df.rows[k][1].v, media_df.rows[k][2])

C7_Witness ==
  /\ dlPc = "done"
  /\ max_workers = 2
  /\ Len(collected) >= 2
  /\ collected[1] = 2 /\ collected[2] = 1
  /\ Cardinality(DOMAIN saved) >= 2

\* C8: the request of the first candidate the service answers without error
\* is the last one made and the call returns a table; when the service
\* answers none, every candidate was tried and the result is the empty
\* table with the requested columns
C8_FirstNonErrorAccepted ==
  xaPc = "done" =>
    LET answered == { k \in 1..Len(Attempts) : xaServes[k] # "error" }
    IN /\ xaResult.kind = "ok"
       /\ \A k \in 1..Len(xaRequests) :
            xaRequests[k] = AttemptRequest(Attempts[k], M, xaAnnset, xaFields)
       /\ IF answered = {}
            THEN Len(xaRequests) = Len(Attempts) /\ xaResult.df = EmptyDf(xaFields)
            ELSE \A k \in answered : (\A j \in answered : k <= j) => Len(xaRequests) = k

\* C9: an empty annotation table comes back from the filter unchanged,
\* without error and without join-key detection, for any media-id set; the
\* resolver returns the zero-row table with the requested columns when the
\* identifier list is empty or no identifier passes
C9_EmptyInputStability ==
  /\ (fltPc = "done" /\ IsEmpty(ann_df)) => fltResult = FilterOutcome("ok", ann_df, FALSE)
  /\ (/\ resPc = "done"
      /\ \A k \in 1..Len(annotation_ids) : ~Accepted(remoteAnn[annotation_ids[k]], annset_id)) =>
       resResult = [cols |-> ResolverFields, rows |-> <<>>]

C9_Witness ==
  /\ fltPc = "done"
  /\ ann_df = EmptyDf(<<S_id, C_label_name>>)
  /\ media_ids # {}
  /\ fltResult.kind = "ok"

\* the field of column c in row k of a written CSV file
FieldOf(csv, k, c) == csv.rows[k][CHOOSE j \in 1..Len(csv.cols) : csv.cols[j] = c]

RemoteMediaIds == { remoteMedia[k].d[S_id].v : k \in 1..Len(remoteMedia) }

MediaRefs == [k \in 1..Len(remoteAnns) |-> MediaRefOf(remoteAnns[k])]

\* C10: the media-id set is the collection's before annotations are
\* exported and filtered; nothing is written to the annotation file before
\* the filter has run; every row written references a media id of the set
\* and carries collection_id; media {1,2,3} and rows referencing 1, 2, 4
\* and "bad" give exactly the rows of media 1 and 2
C10_Pipeline ==
  /\ mainPc \in {"annotations", "filter", "provenance", "download", "done"} =>
       media_ids = RemoteMediaIds /\ media_csv.written
  /\ mainPc \in {"media", "annotations", "filter", "provenance"} => ~ann_csv.written
  /\ ann_csv.written =>
       /\ InSeq(C_collection_id, ann_csv.cols)
       /\ \A k \in 1..Len(ann_csv.rows) :
            /\ FieldOf(ann_csv, k, S_point_media_id).k = "digits"
            /\ FieldOf(ann_csv, k, S_point_media_id).v \in RemoteMediaIds
            /\ FieldOf(ann_csv, k, C_collection_id) = [k |-> "digits", v |-> COLLECTION_ID]
  /\ (/\ ann_csv.written
      /\ RemoteMediaIds = {1, 2, 3}
      /\ MediaRefs = <<IntV(1), IntV(2), IntV(4), TextV>>) =>
       /\ Len(ann_csv.rows) = 2
       /\ FieldOf(ann_csv, 1, S_id).v = 1 /\ FieldOf(ann_csv, 1, S_point_media_id).v = 1
       /\ FieldOf(ann_csv, 2, S_id).v = 2 /\ FieldOf(ann_csv, 2, S_point_media_id).v = 2

C10_Witness ==
  /\ mainPc = "done"
  /\ ann_csv.written
  /\ RemoteMediaIds = {1, 2, 3}
  /\ MediaRefs = <<IntV(1), IntV(2), IntV(4), TextV>>
  /\ Len(ann_csv.rows) = 2

====
